---- MODULE Spec2Model ----
(***************************************************************************)
(* A2A protocol engine (src/agents/protocols/protocol.py): the handler     *)
(* registry, the agent directory, the table of pending responses and the   *)
(* request/await/timeout workflow of A2AProtocol, driven by one asyncio    *)
(* event loop.  A step of the model is what one task runs between two      *)
(* suspension points.                                                      *)
(***************************************************************************)
EXTENDS Integers, Sequences, FiniteSets, TLC

\* ---------------------------------------------------------------- bounds
\* number of request_and_wait calls made on the engine
MaxReq == 1
\* number of items a news feed returns, largest max_items asked for
MaxFeed == 2
MaxItems == 2

\* ------------------------------------------------------------ value sets
\* Python None where an envelope, a payload or a mapping is expected
None == [none |-> TRUE]
\* Python None where a message id is expected (Optional[str])
NoId == 0

REQUEST == "request"
RESPONSE == "response"
NOTIFICATION == "notification"
ERROR == "error"
MessageType == {REQUEST, RESPONSE, NOTIFICATION, ERROR}

\* agent_id of the engine under study
Self == "reportero"
\* sender ids of inbound envelopes
Senders == {"peer", "client"}
\* action names a handler is registered for
Actions == {"workflow.news"}
\* action names carried by inbound payloads
PayloadActions == Actions \cup {"nosuch"}
\* handler callables
Handlers == {"h1", "h2"}
\* params mappings of a request
Params == {[x |-> 1]}
\* values a handler returns, texts of the exceptions a handler raises
Results == {[x |-> 1], [status |-> "workflow completed"]}
Failures == {"boom"}
Slots == 1..MaxReq
\* the calls of the engine when concurrent calls are studied: one more
ConcurrentSlots == 1..(MaxReq + 1)
\* uuid4 values: the id of the k-th request_and_wait call is k; the ids of
\* the envelopes the engine returns and keeps no record of are fresh, and
\* are not told apart
OwnIds == 1..MaxReq
FreshId == MaxReq + 1

\* payloads: Dict[str, Any]; a key that is absent is absent from the record
RequestPayloads ==
    {[action |-> a, params |-> p] : a \in PayloadActions, p \in Params}
ResultPayloads == {[result |-> [x |-> 1], success |-> TRUE]}
ErrorPayloads == {[error |-> e, success |-> FALSE] : e \in Failures}

\* dict.get(key) with the default None
payload_get(payload, key) ==
    IF key \in DOMAIN payload THEN payload[key] ELSE "None"

A2AMessage(id, type, sender, receiver, payload, irt) ==
    [message_id |-> id, message_type |-> type, sender_id |-> sender,
     receiver_id |-> receiver, payload |-> payload, in_reply_to |-> irt]

\* envelopes a transport can deliver to handle_message: A2AMessage(**dict)
\* accepts every kind with every in_reply_to
PayloadsOf(type) ==
    CASE type = REQUEST -> RequestPayloads
      [] type = NOTIFICATION ->
            {[action |-> a, params |-> p] : a \in Actions, p \in Params}
      [] type = RESPONSE -> ResultPayloads
      [] type = ERROR -> ErrorPayloads
InboundId(sender) == IF sender = "peer" THEN 101 ELSE 102
\* Requests that name no request of this engine, from every sender
InboundRequests ==
    {A2AMessage(InboundId(s), REQUEST, s, Self, p, NoId) :
        s \in Senders, p \in RequestPayloads}
\* messages of every kind that name an id this engine draws: Responses and
\* Errors of the peer asked, Requests and Notifications of a client
ReplySender(type) == IF type \in {RESPONSE, ERROR} THEN "peer" ELSE "client"
InboundReplies ==
    UNION {{A2AMessage(InboundId(ReplySender(type)), type, ReplySender(type),
                       Self, p, irt) :
              p \in PayloadsOf(type) \ {[action |-> "nosuch", params |-> q] :
                                          q \in Params},
              irt \in OwnIds} : type \in MessageType}
\* Notifications, Responses and Errors that name nothing
InboundOthers ==
    UNION {{A2AMessage(InboundId("peer"), type, "peer", Self, p, NoId) :
              p \in PayloadsOf(type)} : type \in MessageType \ {REQUEST}}
Inbound == InboundRequests \cup InboundReplies \cup InboundOthers

\* ----------------------------------------------------------------- state
VARIABLES
    known_agents,       \* A2AProtocol.known_agents, in insertion order
    message_handlers,   \* A2AProtocol.message_handlers: action -> handler
    pending_responses,  \* A2AProtocol.pending_responses: id -> future
    futures,            \* the asyncio.Future of each request_and_wait call
    calls,              \* the request_and_wait coroutines
    uuid,               \* number of ids drawn for requests so far
    outbox,             \* ids of the envelopes returned to a caller
    last,               \* the operation that returned last, as observed
    routes,             \* the paths of the routes of A2AServer.app
    sockets,            \* the WebSocket connections made to the server
    active_connections, \* A2AServer.active_connections: agent id -> socket
    connection_agents   \* A2AServer.connection_agents: socket -> agent id

\* the state of the A2AServer object
server_vars == <<routes, sockets, active_connections, connection_agents>>

vars == <<known_agents, message_handlers, pending_responses, futures, calls,
          uuid, outbox, last, routes, sockets, active_connections,
          connection_agents>>


\* ------------------------------------------------------------- helpers
\* dict[key] = value: an existing key keeps its place, a new one is added
Put(f, k, v) == [x \in DOMAIN f \cup {k} |-> IF x = k THEN v ELSE f[x]]
\* dict.pop(key, None)
Pop(f, k) == [x \in DOMAIN f \ {k} |-> f[x]]

\* records of the agent directory
AgentInfos ==
    {[agent_id |-> "a1", name |-> "A1", capabilities |-> <<"data_retrieval">>,
      endpoint |-> "agent://a1", status |-> "active"]}

\* AgentCapability values and the capability lists agents declare
Capabilities == {"data_retrieval", "data_analysis"}
CapLists == {<<"data_retrieval">>, <<"data_analysis">>,
             <<"data_retrieval", "data_analysis">>}
AgentInfo(agent_id, name, capabilities) ==
    [agent_id |-> agent_id, name |-> name, capabilities |-> capabilities,
     endpoint |-> "agent://" \o agent_id, status |-> "active"]
\* A2AProtocol.get_agent_info: built from the configuration, not stored
get_agent_info ==
    AgentInfo(Self, "Reportero", <<"data_retrieval", "data_analysis">>)
\* agent ids and records registered in the directory
DirIds == {"a1", "a2", Self}
DirInfos == {AgentInfo(id, id, caps) : id \in DirIds, caps \in CapLists}

\* the routes _setup_routes registers when the server is constructed
SetupRoutes == {"/", "/info", "/message", "/ws/{agent_id}"}
\* the WebSocket connections clients make, and the agent_id of their path
WebSockets == {"ws1", "ws2"}
PathIds == {"peer", "client"}
\* opened is history: the rank of the connection among those accepted
NewSocket == [state |-> "new", agent_id |-> "None", opened |-> 0]
\* the records registered while the server runs
ListedInfos ==
    {AgentInfo(id, id, <<"data_retrieval">>) : id \in {"a1", "a2"}}
\* the frames clients send over a WebSocket
Frames ==
    {A2AMessage(InboundId("client"), type, "client", Self,
                [action |-> "nosuch", params |-> p], NoId) :
        type \in {REQUEST, NOTIFICATION}, p \in Params}

\* arguments of the request_and_wait calls
Receivers == {"peer"}
RequestActions == {"workflow.news"}
\* in_reply_to arguments of direct send_message calls
SendReplyTo == {NoId, 101}

NewFuture == [state |-> "pending", result |-> None]
NoFuture == [state |-> "none", result |-> None]
\* a request_and_wait call: its position, the envelope it built, the pending
\* cancellation of its task and its return value; answered records that a
\* message with in_reply_to equal to its id has reached handle_message
IdleCall == [pc |-> "idle", message |-> None, must_cancel |-> FALSE,
             ret |-> None, answered |-> FALSE]

\* history: handle_message has received a message naming this request
MarkAnswered(cs, in_reply_to) ==
    [r \in ConcurrentSlots |->
        IF cs[r].pc # "idle" /\ cs[r].message.message_id = in_reply_to
        THEN [cs[r] EXCEPT !.answered = TRUE]
        ELSE cs[r]]

\* send_message that does not pass in_reply_to on to the envelope
send_message_unanswering(id, receiver_id, message_type, payload, in_reply_to) ==
    A2AMessage(id, message_type, Self, receiver_id, payload, NoId)

\* send_message that stamps the envelope with the receiver's id
send_message_unstamped(id, receiver_id, message_type, payload, in_reply_to) ==
    A2AMessage(id, message_type, receiver_id, receiver_id, payload,
               in_reply_to)

\* A2AProtocol.send_message: builds the envelope, logs, returns it
send_message(id, receiver_id, message_type, payload, in_reply_to) ==
    A2AMessage(id, message_type, Self, receiver_id, payload, in_reply_to)

\* a test that lets only Responses and Errors answer a pending request
MatchesRepliesOnly(message, pending) ==
    /\ message.message_type \in {RESPONSE, ERROR}
    /\ message.in_reply_to # NoId /\ message.in_reply_to \in DOMAIN pending

\* the test of handle_message for "a response to a pending request"
Matches(message, pending) ==
    message.in_reply_to # NoId /\ message.in_reply_to \in DOMAIN pending

\* a dispatch that treats a Notification as a Request
IsRequestOrNotification(message) ==
    message.message_type \in {REQUEST, NOTIFICATION}

\* the test of handle_message for a message to dispatch
IsRequest(message) == message.message_type = REQUEST

\* a set_result that overwrites a future already completed
set_result_overwriting(fut, message) ==
    [fut |-> [state |-> "result", result |-> message], raised |-> FALSE]

\* asyncio.Future.set_result: InvalidStateError unless the future is pending
set_result(fut, message) ==
    IF fut.state = "pending"
    THEN [fut |-> [state |-> "result", result |-> message], raised |-> FALSE]
    ELSE [fut |-> fut, raised |-> TRUE]

\* a dispatch that unpacks the params for the handler
HandlerArgParams(message) == message.payload.params

\* the argument handle_message calls the handler with
HandlerArg(message) == message.payload

\* a Response addressed to the receiver of the request instead of its sender
SuccessReplyToReceiver(id, message, result) ==
    send_message(id, message.receiver_id, RESPONSE,
                 [result |-> result, success |-> TRUE], message.message_id)
\* an Error for an unknown action that does not name the action
UnknownReplyUnnamed(id, message, action) ==
    send_message(id, message.sender_id, ERROR,
                 [error |-> "Unknown action", success |-> FALSE],
                 message.message_id)

\* the three envelopes handle_message builds for a Request
SuccessReply(id, message, result) ==
    send_message(id, message.sender_id, RESPONSE,
                 [result |-> result, success |-> TRUE], message.message_id)
\* an Error reply that drops the text of the handler's exception
FailureReplyWithoutText(id, message, e) ==
    send_message(id, message.sender_id, ERROR,
                 [error |-> "error", success |-> FALSE], message.message_id)
FailureReply(id, message, e) ==
    send_message(id, message.sender_id, ERROR,
                 [error |-> e, success |-> FALSE], message.message_id)
UnknownReply(id, message, action) ==
    send_message(id, message.sender_id, ERROR,
                 [error |-> "Unknown action: " \o action, success |-> FALSE],
                 message.message_id)

\* an except clause that leaves the entry in the table
WaitCleanupKeepsEntry(pending, id, fut, must_cancel) == pending

\* what request_and_wait returns when the wait ends
WaitResult(fut, must_cancel) ==
    IF fut.state = "result" /\ ~must_cancel THEN fut.result.payload ELSE None
\* the table after the wait ends: the except clause pops the entry
WaitCleanup(pending, id, fut, must_cancel) ==
    IF fut.state = "result" /\ ~must_cancel THEN pending ELSE Pop(pending, id)

Observed(op, msg, ret, raised, handler, arg) ==
    [op |-> op, msg |-> msg, ret |-> ret, raised |-> raised,
     handler |-> handler, arg |-> arg]

\* ------------------------------------------------------------------ Init
Init ==
    /\ known_agents = <<>>
    /\ message_handlers = <<>>
    /\ pending_responses = <<>>
    /\ futures = [r \in ConcurrentSlots |-> NoFuture]
    /\ calls = [r \in ConcurrentSlots |-> IdleCall]
    /\ uuid = 0
    /\ outbox = {}
    /\ last = Observed("init", None, None, FALSE, "None", None)
    /\ routes = SetupRoutes
    /\ sockets = [ws \in WebSockets |-> NewSocket]
    /\ active_connections = <<>>
    /\ connection_agents = <<>>

\* --------------------------------------------------------------- actions
\* a registration that forgets the handlers of the other actions
register_handler_alone(action, handler) ==
    /\ message_handlers' = Put(<<>>, action, handler)
    /\ UNCHANGED <<known_agents, pending_responses, futures, calls, uuid,
                   outbox, last>>
    /\ UNCHANGED server_vars

register_handler(action, handler) ==
    /\ message_handlers' = Put(message_handlers, action, handler)
    /\ UNCHANGED <<known_agents, pending_responses, futures, calls, uuid,
                   outbox, last>>
    /\ UNCHANGED server_vars

\* a registration that always adds a record
UpsertAppending(dir, info) == Append(dir, info)

\* known_agents[agent_info.agent_id] = agent_info
Upsert(dir, info) ==
    IF \E i \in 1..Len(dir) : dir[i].agent_id = info.agent_id
    THEN [i \in 1..Len(dir) |->
             IF dir[i].agent_id = info.agent_id THEN info ELSE dir[i]]
    ELSE Append(dir, info)

register_agent(agent_info) ==
    /\ known_agents' = Upsert(known_agents, agent_info)
    /\ last' = Observed("register_agent", agent_info, None, FALSE, "None",
                        None)
    /\ UNCHANGED <<message_handlers, pending_responses, futures, calls, uuid,
                   outbox>>
    /\ UNCHANGED server_vars

\* a send_message call made by the application itself
SendMessage(receiver_id, message_type, payload, in_reply_to) ==
    /\ LET message == send_message(FreshId, receiver_id, message_type,
                                   payload, in_reply_to)
       IN /\ outbox' = outbox \cup {message.message_id}
          /\ last' = Observed("send_message",
                              [receiver_id |-> receiver_id,
                               message_type |-> message_type,
                               payload |-> payload,
                               in_reply_to |-> in_reply_to],
                              message, FALSE, "None", None)
    /\ UNCHANGED <<known_agents, message_handlers, pending_responses, futures,
                   calls, uuid>>
    /\ UNCHANGED server_vars

\* request_and_wait up to its suspension in asyncio.wait_for
RequestAndWait(r, receiver_id, action, params) ==
    /\ calls[r].pc = "idle"
    /\ \A q \in ConcurrentSlots : q < r => calls[q].pc # "idle"
    /\ LET message == send_message(uuid + 1, receiver_id, REQUEST,
                                   [action |-> action, params |-> params],
                                   NoId)
       IN /\ uuid' = uuid + 1
          /\ futures' = [futures EXCEPT ![r] = NewFuture]
          /\ pending_responses' =
                 Put(pending_responses, message.message_id, r)
          /\ calls' = [calls EXCEPT ![r] =
                 [pc |-> "awaiting", message |-> message,
                  must_cancel |-> FALSE, ret |-> None, answered |-> FALSE]]
    /\ UNCHANGED <<known_agents, message_handlers, outbox, last>>
    /\ UNCHANGED server_vars

\* the timeout of wait_for expires while the future is pending: the future
\* is cancelled, the waiter is scheduled and runs in a later step
Timeout(r) ==
    /\ calls[r].pc = "awaiting"
    /\ futures[r].state = "pending"
    /\ futures' = [futures EXCEPT ![r].state = "cancelled"]
    /\ UNCHANGED <<known_agents, message_handlers, pending_responses, calls,
                   uuid, outbox, last>>
    /\ UNCHANGED server_vars

\* the timeout expires after set_result and before the waiter has run:
\* wait_for built on asyncio.timeout (Python 3.12) cancels the task, which
\* then raises TimeoutError; wait_for of Python 3.11 returns the result
TimeoutLate(r) ==
    /\ calls[r].pc = "awaiting"
    /\ futures[r].state = "result"
    /\ ~calls[r].must_cancel
    /\ calls' = [calls EXCEPT ![r].must_cancel = TRUE]
    /\ UNCHANGED <<known_agents, message_handlers, pending_responses, futures,
                   uuid, outbox, last>>
    /\ UNCHANGED server_vars

\* the waiter runs again: request_and_wait returns
Wake(r) ==
    /\ calls[r].pc = "awaiting"
    /\ futures[r].state \in {"result", "cancelled"}
    /\ calls' = [calls EXCEPT
           ![r].pc = "returned",
           ![r].ret = WaitResult(futures[r], calls[r].must_cancel)]
    /\ futures' = [futures EXCEPT ![r] = NoFuture]
    /\ pending_responses' =
           WaitCleanup(pending_responses, calls[r].message.message_id,
                       futures[r], calls[r].must_cancel)
    /\ UNCHANGED <<known_agents, message_handlers, uuid, outbox, last>>
    /\ UNCHANGED server_vars

\* handle_message, first branch: the message answers a pending request
HandleReply(message) ==
    /\ Matches(message, pending_responses)
    /\ LET r == pending_responses[message.in_reply_to]
           done == set_result(futures[r], message)
       IN /\ pending_responses' = Pop(pending_responses, message.in_reply_to)
          /\ futures' = [futures EXCEPT ![r] = done.fut]
          /\ last' = Observed("handle_message", message, None, done.raised,
                              "None", None)
    /\ calls' = MarkAnswered(calls, message.in_reply_to)
    /\ UNCHANGED <<known_agents, message_handlers, uuid, outbox>>
    /\ UNCHANGED server_vars

\* handle_message, a Request with a registered handler that returns.
\* handle_message reads nothing of the engine after the await of the
\* handler, so the handler's run is part of the step.
HandleRequest(message, result) ==
    /\ ~Matches(message, pending_responses)
    /\ IsRequest(message)
    /\ payload_get(message.payload, "action") \in DOMAIN message_handlers
    /\ LET reply == SuccessReply(FreshId, message, result)
       IN /\ outbox' = outbox \cup {reply.message_id}
          /\ last' = Observed("handle_message", message, reply, FALSE,
                 message_handlers[payload_get(message.payload, "action")],
                 HandlerArg(message))
    /\ calls' = MarkAnswered(calls, message.in_reply_to)
    /\ UNCHANGED <<known_agents, message_handlers, pending_responses,
                   futures, uuid>>
    /\ UNCHANGED server_vars

\* handle_message, a Request with a registered handler that raises
HandleRequestFails(message, e) ==
    /\ ~Matches(message, pending_responses)
    /\ IsRequest(message)
    /\ payload_get(message.payload, "action") \in DOMAIN message_handlers
    /\ LET reply == FailureReply(FreshId, message, e)
       IN /\ outbox' = outbox \cup {reply.message_id}
          /\ last' = Observed("handle_message", message, reply, FALSE,
                 message_handlers[payload_get(message.payload, "action")],
                 HandlerArg(message))
    /\ calls' = MarkAnswered(calls, message.in_reply_to)
    /\ UNCHANGED <<known_agents, message_handlers, pending_responses,
                   futures, uuid>>
    /\ UNCHANGED server_vars

\* handle_message, a Request whose action has no handler
HandleUnknown(message) ==
    /\ ~Matches(message, pending_responses)
    /\ IsRequest(message)
    /\ payload_get(message.payload, "action") \notin DOMAIN message_handlers
    /\ LET reply == UnknownReply(FreshId, message,
                                 payload_get(message.payload, "action"))
       IN /\ outbox' = outbox \cup {reply.message_id}
          /\ last' = Observed("handle_message", message, reply, FALSE,
                              "None", None)
    /\ calls' = MarkAnswered(calls, message.in_reply_to)
    /\ UNCHANGED <<known_agents, message_handlers, pending_responses,
                   futures, uuid>>
    /\ UNCHANGED server_vars

\* a handle_message that pops the entry without testing that it is there:
\* KeyError for a message naming no entry
HandleOtherRaises(message) ==
    /\ ~Matches(message, pending_responses)
    /\ ~IsRequest(message)
    /\ last' = Observed("handle_message", message, None,
                        message.in_reply_to # NoId, "None", None)
    /\ calls' = MarkAnswered(calls, message.in_reply_to)
    /\ UNCHANGED <<known_agents, message_handlers, pending_responses, futures,
                   uuid, outbox>>
    /\ UNCHANGED server_vars

\* handle_message, every other message: no reply
HandleOther(message) ==
    /\ ~Matches(message, pending_responses)
    /\ ~IsRequest(message)
    /\ last' = Observed("handle_message", message, None, FALSE, "None", None)
    /\ calls' = MarkAnswered(calls, message.in_reply_to)
    /\ UNCHANGED <<known_agents, message_handlers, pending_responses, futures,
                   uuid, outbox>>
    /\ UNCHANGED server_vars

\* capability in agent.capabilities
HasCapability(agent, capability) ==
    \E i \in 1..Len(agent.capabilities) : agent.capabilities[i] = capability

\* a lookup that does not filter
get_agents_unfiltered(dir, capability) == dir

\* A2AProtocol.get_agents_by_capability: the list comprehension over
\* known_agents.values()
get_agents_by_capability(dir, capability) ==
    SelectSeq(dir, LAMBDA agent : HasCapability(agent, capability))

\* a get_agents_by_capability call
GetAgentsByCapability(capability) ==
    /\ last' = Observed("get_agents_by_capability",
                        [capability |-> capability],
                        [agents |-> get_agents_by_capability(known_agents,
                                                             capability)],
                        FALSE, "None", None)
    /\ UNCHANGED <<known_agents, message_handlers, pending_responses, futures,
                   calls, uuid, outbox>>
    /\ UNCHANGED server_vars

handle_message(message) ==
    \/ HandleReply(message)
    \/ \E result \in Results : HandleRequest(message, result)
    \/ \E e \in Failures : HandleRequestFails(message, e)
    \/ HandleUnknown(message)
    \/ HandleOther(message)

Next ==
    \/ \E a \in Actions, h \in Handlers : register_handler(a, h)
    \/ \E info \in AgentInfos : register_agent(info)
    \/ \E rcv \in Receivers, t \in MessageType, irt \in SendReplyTo :
          \E p \in PayloadsOf(t) : SendMessage(rcv, t, p, irt)
    \/ \E r \in Slots, rcv \in Receivers, a \in RequestActions, p \in Params :
          RequestAndWait(r, rcv, a, p)
    \/ \E r \in Slots : Timeout(r)
    \/ \E r \in Slots : TimeoutLate(r)
    \/ \E r \in Slots : Wake(r)
    \/ \E m \in Inbound : handle_message(m)

Spec == Init /\ [][Next]_vars

\* the event loop runs every scheduled callback: an armed timeout expires
\* and a scheduled waiter runs
FairSpec ==
    Spec /\ \A r \in Slots : WF_vars(Timeout(r)) /\ WF_vars(Wake(r))

\* websocket_endpoint up to its first receive_text: the connection is
\* accepted and recorded
WsConnect(ws, agent_id) ==
    /\ sockets[ws].state = "new"
    /\ sockets' = [sockets EXCEPT ![ws] =
                      [state |-> "open", agent_id |-> agent_id,
                       opened |-> 1 + Cardinality({w \in WebSockets :
                                        sockets[w].state # "new"})]]
    /\ active_connections' = Put(active_connections, agent_id, ws)
    /\ connection_agents' = Put(connection_agents, ws, agent_id)
    /\ UNCHANGED routes
    /\ UNCHANGED <<known_agents, message_handlers, pending_responses, futures,
                   calls, uuid, outbox, last>>

\* websocket_endpoint, one turn of the loop: a frame is received, parsed and
\* handled and the reply, if any, is sent back.  No handler is registered
\* and no request is made while the server alone is studied, so a frame
\* reaches one of two branches of handle_message.
WsFrame(ws, message) ==
    /\ sockets[ws].state = "open"
    /\ HandleUnknown(message) \/ HandleOther(message)

\* websocket_endpoint after the loop: receive_text, the parsing of a frame,
\* handle_message or send_text raised; either except clause removes the
\* entries, and the statement that follows the try registers GET /agents
WsClose(ws) ==
    /\ sockets[ws].state = "open"
    /\ sockets' = [sockets EXCEPT ![ws].state = "closed"]
    /\ active_connections' = Pop(active_connections, sockets[ws].agent_id)
    /\ connection_agents' = Pop(connection_agents, ws)
    /\ routes' = routes \cup {"/agents"}
    /\ UNCHANGED <<known_agents, message_handlers, pending_responses, futures,
                   calls, uuid, outbox, last>>

\* list_agents, the body of GET /agents
list_agents(dir) == [status |-> 200, agents |-> dir]
\* what the application answers on a path that has no route
NotFound == [status |-> 404, agents |-> <<>>]

\* a client requests GET /agents
GetAgents ==
    /\ last' = Observed("GET /agents", None,
                        IF "/agents" \in routes THEN list_agents(known_agents)
                        ELSE NotFound,
                        FALSE, "None", None)
    /\ UNCHANGED <<known_agents, message_handlers, pending_responses, futures,
                   calls, uuid, outbox>>
    /\ UNCHANGED server_vars

\* A2AServer.send_to_agent: the socket the message is written to, if any
send_to_agent(connections, agent_id) ==
    IF agent_id \in DOMAIN connections THEN connections[agent_id] ELSE "None"

\* a send_to_agent call
SendToAgent(agent_id) ==
    /\ last' = Observed("send_to_agent", [agent_id |-> agent_id],
                        [socket |-> send_to_agent(active_connections,
                                                  agent_id)],
                        FALSE, "None", None)
    /\ UNCHANGED <<known_agents, message_handlers, pending_responses, futures,
                   calls, uuid, outbox>>
    /\ UNCHANGED server_vars

\* the server: WebSocket connections, the directory and its listing
ServerNext ==
    \/ \E info \in ListedInfos : register_agent(info)
    \/ \E ws \in WebSockets, id \in PathIds : WsConnect(ws, id)
    \/ \E ws \in WebSockets, m \in Frames : WsFrame(ws, m)
    \/ \E ws \in WebSockets : WsClose(ws)
    \/ GetAgents
    \/ \E id \in PathIds : SendToAgent(id)

ServerSpec == Init /\ [][ServerNext]_vars

\* ----------------------------------------------------- DataAgent.search_news
\* the (title, url) pairs _parse_rss keeps: both are non-empty
Entries == {[title |-> "t1", url |-> u] : u \in {"u1", "u2"}}
\* the item _parse_rss builds for an entry of the feed of a source
Item(entry, source_name) ==
    [title |-> entry.title, url |-> entry.url, snippet |-> "",
     source |-> source_name]
SeqsUpTo(S, n) == UNION {[1..k -> S] : k \in 0..n}
\* the results of _search_google_news and _search_bing_news: the items of
\* the feed, or the empty list when the fetch fails
GoogleResults ==
    {[i \in 1..Len(f) |-> Item(f[i], "Google News")] :
        f \in SeqsUpTo(Entries, MaxFeed)}
BingResults ==
    {[i \in 1..Len(f) |-> Item(f[i], "Bing News")] :
        f \in SeqsUpTo(Entries, MaxFeed)}

\* key = item.get("url") or item.get("title")
ItemKey(item) == IF item.url # "" THEN item.url ELSE item.title

\* the loop of search_news from the i-th item on
RECURSIVE SearchLoop(_, _, _, _, _)
SearchLoop(items, i, seen, combined, max_items) ==
    IF i > Len(items) THEN combined
    ELSE LET key == ItemKey(items[i])
             fresh == key # "" /\ key \notin seen
             seen2 == IF fresh THEN seen \cup {key} ELSE seen
             combined2 == IF fresh THEN Append(combined, items[i])
                          ELSE combined
         IN IF Len(combined2) >= max_items THEN combined2
            ELSE SearchLoop(items, i + 1, seen2, combined2, max_items)

\* DataAgent.search_news on the results of the two sources
search_news(google, bing, max_items) ==
    SearchLoop(google \o bing, 1, {}, <<>>, max_items)

\* a search_news call
SearchNews(google, bing, max_items) ==
    /\ last' = Observed("search_news",
                        [google |-> google, bing |-> bing,
                         max_items |-> max_items],
                        [items |-> search_news(google, bing, max_items)],
                        FALSE, "None", None)
    /\ UNCHANGED <<known_agents, message_handlers, pending_responses, futures,
                   calls, uuid, outbox>>
    /\ UNCHANGED server_vars

NewsNext ==
    \E google \in GoogleResults, bing \in BingResults, n \in 0..MaxItems :
        SearchNews(google, bing, n)

NewsSpec == Init /\ [][NewsNext]_vars

\* concurrent calls: one call more than elsewhere, with the timers, the
\* waiters and the Responses and Errors that name the calls
ConcurrentInbound ==
    UNION {{A2AMessage(InboundId("peer"), type, "peer", Self, p, irt) :
              p \in PayloadsOf(type), irt \in ConcurrentSlots} :
           type \in {RESPONSE, ERROR}}
ConcurrentNext ==
    \/ \E r \in ConcurrentSlots, rcv \in Receivers, a \in RequestActions,
          p \in Params : RequestAndWait(r, rcv, a, p)
    \/ \E r \in ConcurrentSlots : Timeout(r)
    \/ \E r \in ConcurrentSlots : TimeoutLate(r)
    \/ \E r \in ConcurrentSlots : Wake(r)
    \/ \E m \in ConcurrentInbound : HandleReply(m)
    \/ \E m \in ConcurrentInbound : HandleOther(m)

ConcurrentSpec == Init /\ [][ConcurrentNext]_vars

\* the owner of the task that runs request_and_wait cancels it while it
\* waits: Task.cancel() cancels what the task awaits, here the future of
\* wait_for, and schedules the task
Cancel(r) ==
    /\ calls[r].pc = "awaiting"
    /\ futures[r].state = "pending"
    /\ futures' = [futures EXCEPT ![r].state = "cancelled"]
    /\ calls' = [calls EXCEPT ![r].pc = "cancelling"]
    /\ UNCHANGED <<known_agents, message_handlers, pending_responses, uuid,
                   outbox, last>>
    /\ UNCHANGED server_vars

\* the cancelled task runs again: CancelledError leaves wait_for and, not
\* being a TimeoutError, leaves request_and_wait past its except clause
CancelledReturn(r) ==
    /\ calls[r].pc = "cancelling"
    /\ calls' = [calls EXCEPT ![r].pc = "cancelled"]
    /\ UNCHANGED <<known_agents, message_handlers, pending_responses, futures,
                   uuid, outbox, last>>
    /\ UNCHANGED server_vars

\* calls that their owner may cancel, with their timers, their waiters and
\* the Responses and Errors that name them
CancelNext ==
    \/ \E r \in ConcurrentSlots, rcv \in Receivers, a \in RequestActions,
          p \in Params : RequestAndWait(r, rcv, a, p)
    \/ \E r \in ConcurrentSlots : Timeout(r)
    \/ \E r \in ConcurrentSlots : TimeoutLate(r)
    \/ \E r \in ConcurrentSlots : Wake(r)
    \/ \E r \in ConcurrentSlots : Cancel(r)
    \/ \E r \in ConcurrentSlots : CancelledReturn(r)
    \/ \E m \in ConcurrentInbound : HandleReply(m)
    \/ \E m \in ConcurrentInbound : HandleOther(m)

CancelSpec == Init /\ [][CancelNext]_vars

\* the handler registry with two actions: registrations, and the dispatch
\* of Requests while a call of the engine waits
RegActions == {"workflow.news", "echo"}
RegInbound ==
    {A2AMessage(InboundId("peer"), REQUEST, "peer", Self,
                [action |-> a, params |-> p], NoId) :
        a \in RegActions \cup {"nosuch"}, p \in Params}
HandlerNext ==
    \/ \E a \in RegActions, h \in Handlers : register_handler(a, h)
    \/ \E r \in Slots, rcv \in Receivers, a \in RequestActions, p \in Params :
          RequestAndWait(r, rcv, a, p)
    \/ \E m \in RegInbound, result \in Results : HandleRequest(m, result)
    \/ \E m \in RegInbound, e \in Failures : HandleRequestFails(m, e)
    \/ \E m \in RegInbound : HandleUnknown(m)

HandlerSpec == Init /\ [][HandlerNext]_vars

\* the agent directory alone: registrations and lookups by capability
DirNext ==
    \/ \E info \in DirInfos : register_agent(info)
    \/ \E cap \in Capabilities : GetAgentsByCapability(cap)

DirSpec == Init /\ [][DirNext]_vars

\* ---------------------------------------------------------------- claims
ReqId(r) == calls[r].message.message_id
Started(r) == calls[r].pc # "idle"
Awaiting(r) == calls[r].pc = "awaiting"
Returned(r) == calls[r].pc = "returned"
InTable(r) == Started(r) /\ ReqId(r) \in DOMAIN pending_responses
FutureDone(r) == futures[r].state \in {"result", "cancelled"}

\* the future of a call keeps the state it was completed with until the call
\* returns and drops it
ResolvedOnce(r) ==
    FutureDone(r) =>
        \/ futures'[r] = futures[r]
        \/ futures'[r] = NoFuture /\ calls'[r].pc = "returned"
\* a call that has returned keeps the value it returned
OutcomeFinal(r) ==
    Returned(r) => calls'[r].pc = "returned" /\ calls'[r].ret = calls[r].ret
\* the value a call returns is the timeout value after a timeout, and
\* otherwise the payload of the message naming it that completed its future
OneOutcome(r) ==
    (Awaiting(r) /\ calls'[r].pc = "returned") =>
        \/ /\ calls'[r].ret = None
           /\ futures[r].state = "cancelled" \/ calls[r].must_cancel
        \/ /\ calls'[r].ret # None
           /\ futures[r].state = "result" /\ ~calls[r].must_cancel
           /\ futures[r].result.in_reply_to = ReqId(r)
           /\ calls'[r].ret = futures[r].result.payload

\* C1: every request_and_wait call observes exactly one outcome, the payload
\* of a message naming its request or the timeout: its future is completed
\* at most once, the value it returns is decided by that completion and by
\* the timeout alone, a returned value never changes, and every call that
\* waits returns.
C1_ExactlyOneOutcome ==
    /\ [][\A r \in Slots : ResolvedOnce(r) /\ OutcomeFinal(r) /\ OneOutcome(r)]_vars
    /\ \A r \in Slots : Awaiting(r) ~> Returned(r)

\* a call returned a payload, another run of the model a timeout
C1_Witness ==
    \E r \in Slots : Returned(r) /\ calls[r].answered /\ calls[r].ret # None

\* C2: a message naming a request whose timeout has expired, handled before
\* the waiter has removed the entry, is handled without raising, and no
\* entry of a returned call stays in the table.
C2_ReplyInWindowHandled ==
    /\ (/\ last.op = "handle_message"
        /\ last.msg.message_type \in {RESPONSE, ERROR}) => ~last.raised
    /\ \A r \in Slots : Returned(r) => ~InTable(r)

\* C3: the Request envelope built by request_and_wait is handed to the
\* transport (the first step of reaching the peer's handle_message and of
\* being answered): the envelope of every call that waits has left the
\* engine.
C3_RequestHandedToTransport ==
    \A r \in Slots : Started(r) => ReqId(r) \in outbox

\* C4: every request_and_wait call returns; a call whose request no message
\* delivered to handle_message ever named returns the timeout value None,
\* and its id is then not in the table.
C4_TimeoutReturns ==
    /\ [](\A r \in Slots :
            (Returned(r) /\ ~calls[r].answered) =>
                calls[r].ret = None /\ ~InTable(r))
    /\ \A r \in Slots : Awaiting(r) ~> Returned(r)

\* a call nothing answered has returned
C4_Witness ==
    \E r \in Slots :
        Returned(r) /\ ~calls[r].answered /\ calls[r].ret = None

\* C5: the table holds an entry for a request exactly while its call awaits
\* the reply, neither resolved nor expired.
C5_EntryIffAwaitingReply ==
    \A r \in Slots :
        InTable(r) <=> (Awaiting(r) /\ futures[r].state = "pending")

\* the envelope invariant: in_reply_to is set exactly on Response and Error
WellFormed(e) == (e.message_type \in {RESPONSE, ERROR}) <=> (e.in_reply_to # NoId)
\* the step is a run of handle_message on the message it has recorded
Handling == last'.op = "handle_message" /\ handle_message(last'.msg)
\* the message of that run
Msg == last'.msg
NotPending(m) == m.in_reply_to \notin DOMAIN pending_responses
ActionOf(m) == payload_get(m.payload, "action")

\* C6: handle_message of a Response or Error that names no entry of the
\* table returns None, does not raise, calls no handler and leaves the
\* table, the handler registry and the agent directory as they were.
C6_DanglingReplyNoOp ==
    [][(Handling /\ Msg.message_type \in {RESPONSE, ERROR} /\ NotPending(Msg))
          => /\ last'.ret = None /\ ~last'.raised /\ last'.handler = "None"
             /\ UNCHANGED <<pending_responses, message_handlers,
                            known_agents>>]_vars

\* a Response naming a request that has already timed out was dropped
C6_Witness ==
    /\ last.op = "handle_message"
    /\ last.msg.message_type = RESPONSE
    /\ last.ret = None /\ ~last.raised
    /\ \E r \in Slots :
          /\ Returned(r) /\ calls[r].ret = None /\ calls[r].answered
          /\ ReqId(r) = last.msg.in_reply_to
    /\ message_handlers # <<>> /\ known_agents # <<>>

C8_HandlerGetsParams ==
    last.handler # "None" => last.arg = last.msg.payload.params

\* C8 as amended: the handler is called with the whole payload of the
\* Request, the mapping holding action and params.
C8_HandlerGetsPayload ==
    last.handler # "None" =>
        /\ last.arg = last.msg.payload
        /\ DOMAIN last.arg = {"action", "params"}

\* a handler was called for a Request
C8_Witness ==
    /\ last.op = "handle_message"
    /\ last.handler # "None"
    /\ last.msg.message_type = REQUEST

\* C9: for a Request that names no entry of the table and whose action has
\* a handler, handle_message calls that handler and, when it returns r,
\* returns a Response from this engine to the request's sender, in reply to
\* the request's id, with payload {result: r, success: true}.
C9_SuccessResponse ==
    [][(/\ Handling
        /\ Msg.message_type = REQUEST /\ NotPending(Msg)
        /\ ActionOf(Msg) \in DOMAIN message_handlers)
          => /\ last'.handler = message_handlers[ActionOf(Msg)]
             /\ last'.ret # None
             /\ \A r \in Results :
                   HandleRequest(Msg, r) =>
                      /\ last'.ret.message_type = RESPONSE
                      /\ last'.ret.sender_id = Self
                      /\ last'.ret.receiver_id = Msg.sender_id
                      /\ last'.ret.in_reply_to = Msg.message_id
                      /\ last'.ret.payload = [result |-> r, success |-> TRUE]
      ]_vars

\* a Request of the second sender was answered with a Response
C9_Witness ==
    /\ last.op = "handle_message"
    /\ last.ret # None
    /\ last.ret.message_type = RESPONSE
    /\ last.ret.receiver_id = "client"
    /\ last.ret.in_reply_to = 102

\* C10: for a Request that names no entry of the table and whose action has
\* no handler, handle_message returns an Error to the request's sender, in
\* reply to the request's id, with payload {error: "Unknown action:
\* <action>", success: false}; it does not raise and changes neither
\* registry nor table.
C10_UnknownActionError ==
    [][(/\ Handling
        /\ Msg.message_type = REQUEST /\ NotPending(Msg)
        /\ ActionOf(Msg) \notin DOMAIN message_handlers)
          => /\ ~last'.raised /\ last'.handler = "None"
             /\ last'.ret # None
             /\ last'.ret.message_type = ERROR
             /\ last'.ret.sender_id = Self
             /\ last'.ret.receiver_id = Msg.sender_id
             /\ last'.ret.in_reply_to = Msg.message_id
             /\ last'.ret.payload =
                   [error |-> "Unknown action: " \o ActionOf(Msg),
                    success |-> FALSE]
             /\ UNCHANGED <<pending_responses, message_handlers,
                            known_agents>>]_vars

\* a Request for an action nobody registered was answered while another
\* action had a handler and a request was pending
C10_Witness ==
    /\ last.op = "handle_message"
    /\ last.ret # None
    /\ last.ret.payload = [error |-> "Unknown action: nosuch",
                           success |-> FALSE]
    /\ message_handlers # <<>>
    /\ pending_responses # <<>>

\* C11: when the handler of a Request raises e, handle_message does not
\* raise: it returns an Error from this engine to the request's sender, in
\* reply to the request's id, with payload {error: str(e), success: false};
\* the handler registry, the agent directory, the table and the futures are
\* as before, so a request still waiting keeps its entry and its pending
\* future.
C11_HandlerFailureIsolated ==
    [][\A e \in Failures :
          (/\ Handling
           /\ Msg.message_type = REQUEST /\ NotPending(Msg)
           /\ ActionOf(Msg) \in DOMAIN message_handlers
           /\ HandleRequestFails(Msg, e))
             => /\ ~last'.raised
                /\ last'.handler = message_handlers[ActionOf(Msg)]
                /\ last'.ret # None
                /\ last'.ret.message_type = ERROR
                /\ last'.ret.sender_id = Self
                /\ last'.ret.receiver_id = Msg.sender_id
                /\ last'.ret.in_reply_to = Msg.message_id
                /\ last'.ret.payload = [error |-> e, success |-> FALSE]
                /\ UNCHANGED <<pending_responses, message_handlers,
                               known_agents, futures>>
                /\ \A r \in Slots :
                      (InTable(r) /\ futures[r].state = "pending") =>
                          /\ calls'[r].pc = "awaiting"
                          /\ ReqId(r) \in DOMAIN pending_responses'
                          /\ futures'[r].state = "pending"]_vars

\* a handler failed while a request of this engine was waiting
C11_Witness ==
    /\ last.op = "handle_message"
    /\ last.handler # "None"
    /\ last.ret # None
    /\ last.ret.payload = [error |-> "boom", success |-> FALSE]
    /\ \E r \in Slots : InTable(r) /\ futures[r].state = "pending"
    /\ known_agents # <<>>

\* C12: a call whose future handle_message has resolved with a message
\* returns exactly the payload of that message, success flag included, also
\* when the message is an Error; it does not return the timeout value.
C12_ResolvedReturnsPayload ==
    [][\A r \in Slots :
          (/\ Awaiting(r) /\ futures[r].state = "result"
           /\ calls'[r].pc = "returned")
             => /\ calls'[r].ret = futures[r].result.payload
                /\ "success" \in DOMAIN futures[r].result.payload =>
                      calls'[r].ret.success =
                          futures[r].result.payload.success]_vars

\* the message names an entry of the table
NamesEntry(m) ==
    m.in_reply_to # NoId /\ m.in_reply_to \in DOMAIN pending_responses
\* the call whose entry the message names
Named(m) == pending_responses[m.in_reply_to]

\* C13: when the in_reply_to of a message names an entry of the table whose
\* call is still waiting (its future is pending), handle_message completes
\* that future with the message, removes that entry and no other, and
\* returns None, whatever the kind and the sender of the message: no handler
\* is called and no envelope is built, also for a Request whose action has a
\* handler.
C13_ReplyResolvesEntry ==
    [][(/\ Handling /\ NamesEntry(Msg)
        /\ futures[Named(Msg)].state = "pending")
          => /\ last'.ret = None /\ ~last'.raised
             /\ last'.handler = "None" /\ last'.arg = None
             /\ futures'[Named(Msg)] = [state |-> "result", result |-> Msg]
             /\ \A q \in Slots \ {Named(Msg)} : futures'[q] = futures[q]
             /\ pending_responses' = Pop(pending_responses, Msg.in_reply_to)
             /\ UNCHANGED <<message_handlers, known_agents, outbox>>]_vars

\* a Request of a client for an action that has a handler resolved a call
C13_Witness ==
    /\ last.op = "handle_message"
    /\ last.msg.message_type = REQUEST
    /\ last.msg.sender_id = "client"
    /\ ActionOf(last.msg) \in DOMAIN message_handlers
    /\ last.ret = None
    /\ \E r \in Slots :
          /\ futures[r] = [state |-> "result", result |-> last.msg]
          /\ ~InTable(r)

\* C14: handle_message of a Notification that names no entry of the table
\* returns None without raising, calls no handler, also when payload.action
\* has one, builds no envelope and leaves the table, the futures, the
\* handler registry and the agent directory as they were.
C14_NotificationNoReply ==
    [][(Handling /\ Msg.message_type = NOTIFICATION /\ ~NamesEntry(Msg))
          => /\ last'.ret = None /\ ~last'.raised
             /\ last'.handler = "None" /\ last'.arg = None
             /\ UNCHANGED <<pending_responses, futures, message_handlers,
                            known_agents, outbox>>]_vars

\* a Notification for an action that has a handler was dropped while a call
\* was waiting
C14_Witness ==
    /\ last.op = "handle_message"
    /\ last.msg.message_type = NOTIFICATION
    /\ last.msg.in_reply_to = NoId
    /\ ActionOf(last.msg) \in DOMAIN message_handlers
    /\ last.ret = None
    /\ pending_responses # <<>>
    /\ known_agents # <<>>

\* the step is a send_message call of the application with the arguments it
\* has recorded
Sending ==
    /\ last'.op = "send_message"
    /\ SendMessage(last'.msg.receiver_id, last'.msg.message_type,
                   last'.msg.payload, last'.msg.in_reply_to)

\* C15: send_message returns, in the step it is called in, an envelope whose
\* sender_id is the engine's own id and whose kind, receiver_id, payload and
\* in_reply_to are the arguments; it does not raise and changes neither the
\* table, the futures and the waiting calls nor the handler registry and the
\* agent directory: no entry is created.
C15_SendBuildsEnvelopeOnly ==
    [][Sending
          => /\ ~last'.raised
             /\ last'.ret.sender_id = Self
             /\ last'.ret.message_type = last'.msg.message_type
             /\ last'.ret.receiver_id = last'.msg.receiver_id
             /\ last'.ret.payload = last'.msg.payload
             /\ last'.ret.in_reply_to = last'.msg.in_reply_to
             /\ last'.ret.message_id \notin DOMAIN pending_responses'
             /\ UNCHANGED <<pending_responses, futures, calls,
                            message_handlers, known_agents>>]_vars

\* send_message built a Response while a call was waiting
C15_Witness ==
    /\ last.op = "send_message"
    /\ last.ret.message_type = RESPONSE
    /\ last.ret.in_reply_to # NoId
    /\ last.ret.sender_id = Self
    /\ \E r \in Slots : InTable(r) /\ futures[r].state = "pending"
    /\ DOMAIN pending_responses = {ReqId(r) : r \in {q \in Slots : Started(q)}}

\* the agent ids of a directory, in its order
Ids(dir) == [i \in 1..Len(dir) |-> dir[i].agent_id]
\* the places of a directory whose entry declares the capability
Having(dir, cap) == {i \in 1..Len(dir) : HasCapability(dir[i], cap)}
\* the step is a lookup with the capability it has recorded
Finding ==
    /\ last'.op = "get_agents_by_capability"
    /\ GetAgentsByCapability(last'.msg.capability)
\* ret lists the entries of dir that declare cap, each once, in dir's order
ExactlyTheHaving(ret, dir, cap) ==
    /\ Len(ret) = Cardinality(Having(dir, cap))
    /\ \A j \in 1..Len(ret) : \E i \in Having(dir, cap) : ret[j] = dir[i]
    /\ \A i \in Having(dir, cap) : \E j \in 1..Len(ret) : ret[j] = dir[i]
    /\ \A j, k \in 1..Len(ret) :
          j < k => \E i, l \in Having(dir, cap) :
                      i < l /\ ret[j] = dir[i] /\ ret[k] = dir[l]

\* C16: get_agents_by_capability(cap) returns exactly the entries of the
\* directory whose capabilities contain cap, each once and in the order of
\* the directory, the empty list when there is none, and the engine's own
\* info only when an entry with its id was registered; the order of the
\* directory is the order in which the agent ids were first registered: a
\* registration of a new id adds it at the end, one of a known id keeps
\* every id in its place.
C16_FindByCapability ==
    /\ [][Finding =>
            /\ ExactlyTheHaving(last'.ret.agents, known_agents,
                                last'.msg.capability)
            /\ Having(known_agents, last'.msg.capability) = {} =>
                  last'.ret.agents = <<>>
            /\ (\A i \in 1..Len(known_agents) :
                   known_agents[i].agent_id # Self)
                 => \A j \in 1..Len(last'.ret.agents) :
                       last'.ret.agents[j].agent_id # get_agent_info.agent_id
            /\ UNCHANGED known_agents]_vars
    /\ [][\A info \in DirInfos :
            register_agent(info) =>
               Ids(known_agents') =
                  IF \E i \in 1..Len(known_agents) :
                        known_agents[i].agent_id = info.agent_id
                  THEN Ids(known_agents)
                  ELSE Append(Ids(known_agents), info.agent_id)]_vars

\* three agents declaring {A}, {B} and {A, B} are registered in this order
\* and the lookup of A returned the first and the third
C16_Witness ==
    /\ last.op = "get_agents_by_capability"
    /\ last.msg.capability = "data_retrieval"
    /\ Len(known_agents) = 3
    /\ known_agents[1].capabilities = <<"data_retrieval">>
    /\ known_agents[2].capabilities = <<"data_analysis">>
    /\ known_agents[3].capabilities = <<"data_retrieval", "data_analysis">>
    /\ last.ret.agents = <<known_agents[1], known_agents[3]>>

\* the step is a register_agent call with the record it has recorded
Registering == last'.op = "register_agent" /\ register_agent(last'.msg)
\* the places of a directory that hold an entry of the agent id
PlacesOf(dir, id) == {i \in 1..Len(dir) : dir[i].agent_id = id}

\* C17: the directory holds at most one entry per agent id; register_agent
\* makes the record given the entry of its id and leaves the entries of
\* every other id as they were, so the entry of an id is the record of the
\* last call for it; registering the same record once more changes nothing.
C17_RegisterAgentUpserts ==
    /\ [](\A id \in DirIds : Cardinality(PlacesOf(known_agents, id)) <= 1)
    /\ [][Registering =>
            /\ \E i \in 1..Len(known_agents') : known_agents'[i] = last'.msg
            /\ \A i \in 1..Len(known_agents') :
                  known_agents'[i].agent_id = last'.msg.agent_id =>
                      known_agents'[i] = last'.msg
            /\ \A i \in 1..Len(known_agents) :
                  known_agents[i].agent_id # last'.msg.agent_id =>
                      known_agents'[i] = known_agents[i]
            /\ Len(known_agents') =
                  IF PlacesOf(known_agents, last'.msg.agent_id) = {}
                  THEN Len(known_agents) + 1 ELSE Len(known_agents)
            /\ Upsert(known_agents', last'.msg) = known_agents'
            /\ (\E i \in 1..Len(known_agents) :
                   known_agents[i] = last'.msg)
                 => known_agents' = known_agents]_vars

\* the first of two registered agents has been registered again, with
\* other capabilities than the second
C17_Witness ==
    /\ last.op = "register_agent"
    /\ Len(known_agents) = 2
    /\ known_agents[1] = last.msg
    /\ known_agents[2].agent_id # last.msg.agent_id
    /\ known_agents[2].capabilities # last.msg.capabilities

\* C18: register_handler can always be called and makes the handler given
\* the handler of its action, whatever the action had before; the handlers
\* of the other actions, the table and the futures stay as they were, and
\* registering the pair an action already has changes nothing; nothing else
\* changes the registry, and a Request is dispatched to the handler the
\* registry holds for its action, the one registered last.
C18_RegisterHandlerOverwrites ==
    /\ [](\A a \in RegActions, h \in Handlers : ENABLED register_handler(a, h))
    /\ [][\A a \in RegActions, h \in Handlers :
            register_handler(a, h) =>
               /\ DOMAIN message_handlers' = DOMAIN message_handlers \cup {a}
               /\ message_handlers'[a] = h
               /\ \A b \in DOMAIN message_handlers \ {a} :
                     message_handlers'[b] = message_handlers[b]
               /\ (a \in DOMAIN message_handlers /\ message_handlers[a] = h)
                     => message_handlers' = message_handlers
               /\ UNCHANGED <<pending_responses, futures, known_agents>>]_vars
    /\ [][message_handlers' # message_handlers =>
             \E a \in RegActions, h \in Handlers : register_handler(a, h)]_vars
    /\ [][(/\ Handling /\ Msg.message_type = REQUEST /\ ~NamesEntry(Msg)
           /\ ActionOf(Msg) \in DOMAIN message_handlers)
             => last'.handler = message_handlers[ActionOf(Msg)]]_vars

\* a Request was dispatched to the first handler of its action, and the
\* action has then been given another handler while a second action keeps
\* its own and a call waits
C18_Witness ==
    /\ last.op = "handle_message"
    /\ last.handler = "h1"
    /\ ActionOf(last.msg) = "workflow.news"
    /\ DOMAIN message_handlers = RegActions
    /\ message_handlers["workflow.news"] = "h2"
    /\ message_handlers["echo"] = "h1"
    /\ pending_responses # <<>>

\* the step is a GET /agents request
Listing == last'.op = "GET /agents" /\ GetAgents

\* C19: GET /agents has a route from the moment _setup_routes has run,
\* whether or not a WebSocket connection was made or has ended, and answers
\* with exactly the records of the agent directory, which it leaves as it
\* is.
C19_ListingExposedFromSetup ==
    /\ []("/agents" \in routes)
    /\ [][Listing =>
            /\ last'.ret = [status |-> 200, agents |-> known_agents]
            /\ UNCHANGED known_agents]_vars

\* ret is taken in order from items: a strictly increasing choice of places
InOrderFrom(ret, items) ==
    \E f \in [1..Len(ret) -> 1..Len(items)] :
        /\ \A j \in 1..Len(ret) : ret[j] = items[f[j]]
        /\ \A j, k \in 1..Len(ret) : j < k => f[j] < f[k]

\* C20: search_news(query, max_items) returns at most max_items items for
\* every max_items >= 0, taken in order from the Google News results
\* followed by the Bing News results, no two of them with the same key.
C20_AtMostMaxItemsDistinct ==
    last.op = "search_news" =>
        /\ Len(last.ret.items) <= last.msg.max_items
        /\ InOrderFrom(last.ret.items, last.msg.google \o last.msg.bing)
        /\ \A j, k \in 1..Len(last.ret.items) :
              j # k => ItemKey(last.ret.items[j]) # ItemKey(last.ret.items[k])

\* the other calls keep their futures, and their entries if they have one
OthersUntouched(r) ==
    \A q \in ConcurrentSlots \ {r} :
        /\ futures'[q] = futures[q]
        /\ calls'[q].pc = calls[q].pc /\ calls'[q].ret = calls[q].ret
        /\ InTable(q) =>
              /\ ReqId(q) \in DOMAIN pending_responses'
              /\ pending_responses'[ReqId(q)] = q
\* a message resolves the call it names and no other
ResolvesOnlyNamed ==
    (Handling /\ NamesEntry(Msg) /\ futures[Named(Msg)].state = "pending")
        => /\ ReqId(Named(Msg)) = Msg.in_reply_to
           /\ futures'[Named(Msg)] = [state |-> "result", result |-> Msg]
           /\ OthersUntouched(Named(Msg))
\* the timeout of a call and the return of a call leave the others alone
TimeoutOnlyOwn(r) ==
    (\/ futures[r].state = "pending" /\ futures'[r].state = "cancelled"
     \/ Awaiting(r) /\ calls'[r].pc = "returned")
        => /\ OthersUntouched(r)
           /\ DOMAIN pending_responses \ DOMAIN pending_responses'
                 \subseteq {ReqId(r)}
\* a call whose reply has resolved it, returning while another call is in
\* flight, returns the payload of its own reply
ReturnsOwnReply(r) ==
    (/\ Awaiting(r) /\ futures[r].state = "result"
     /\ calls'[r].pc = "returned"
     /\ \E q \in ConcurrentSlots \ {r} : Awaiting(q))
        => /\ futures[r].result.in_reply_to = ReqId(r)
           /\ calls'[r].ret = futures[r].result.payload

\* C21: with several calls in flight, a message resolves only the call
\* whose request id is its in_reply_to and every other entry stays in the
\* table, unresolved; each call returns the payload of its own reply, in
\* whatever order the replies come; the timeout of a call removes the entry
\* of that call only.
C21_ConcurrentCallsIsolated ==
    [][/\ ResolvesOnlyNamed
       /\ \A r \in ConcurrentSlots : TimeoutOnlyOwn(r) /\ ReturnsOwnReply(r)]_vars

\* C22: when the task waiting in request_and_wait is cancelled by its owner,
\* the entry of its request is removed all the same: the table holds no
\* entry of a call whose task has ended, by return or by cancellation.
C22_NoEntryWithoutWaiter ==
    \A r \in ConcurrentSlots :
        /\ calls[r].pc = "cancelled" => ~InTable(r)
        /\ InTable(r) => calls[r].pc \in {"awaiting", "cancelling"}

\* the open WebSockets of an agent id
OpenSockets(id) ==
    {w \in WebSockets : sockets[w].state = "open" /\ sockets[w].agent_id = id}
\* the step is a send_to_agent call
SendingToAgent ==
    last'.op = "send_to_agent" /\ SendToAgent(last'.msg.agent_id)

\* C23: active_connections maps an agent id exactly when the agent has an
\* open WebSocket, and to the one opened last among those still open, so
\* the close of an older connection of an id leaves the entry of a newer
\* one; send_to_agent selects no closed socket.
C23_ConnectionsTrackOpenSockets ==
    /\ [](\A id \in PathIds :
            /\ id \in DOMAIN active_connections <=> OpenSockets(id) # {}
            /\ id \in DOMAIN active_connections =>
                  /\ active_connections[id] \in OpenSockets(id)
                  /\ \A w \in OpenSockets(id) :
                        sockets[w].opened <=
                           sockets[active_connections[id]].opened)
    /\ [][(SendingToAgent /\ last'.ret.socket # "None") =>
             sockets[last'.ret.socket].state = "open"]_vars

====
